---- MODULE Spec2Model ----
(***************************************************************************)
(* A model of the sudoku-solver crate: the grid parser and validator of    *)
(* src/sudoku.rs and the iterative backtracking solver of                  *)
(* src/sudoku/solver.rs.                                                   *)
(*                                                                         *)
(* A grid is a function [0..8 -> [0..8 -> 0..9]]: contents[i][j], indexed  *)
(* from 0 as the Rust Vec<Vec<SudokuCell>> is; SudokuCell::Empty is 0 and  *)
(* SudokuCell::Filled(d) is d.                                             *)
(***************************************************************************)
EXTENDS Integers, Sequences, FiniteSets, TLC

VARIABLES
    input,      \* the grid handed to SudokuSolver::new (the caller's, never mutated)
    solver,     \* a SudokuSolver and its caller: table, recursion_stack, pc, returned
    twin,       \* a second SudokuSolver built from the same input grid
    lines,      \* the lines handed to SudokuTable::from_string
    parsed,     \* what from_string returned for them (NotParsed before the call)
    valid       \* what is_valid_sudoku returned for input (None before the call)

vars == <<input, solver, twin, lines, parsed, valid>>

(***************************************************************************)
(* Bounds of the model.                                                    *)
(***************************************************************************)
\* at most this many cells of the reference grid are blanked in a solver input
MaxHoles == 8
\* the same, for the inputs of the two-solver specification
MaxPairHoles == 4
\* next() is called at most this many times after it first returned None
MaxCallsAfterNone == 2

(***************************************************************************)
(* Cells, locations, options.                                              *)
(***************************************************************************)
TABLE_SIZE == 9

Empty == 0

Filled(d) == d

Idx == 0..(TABLE_SIZE - 1)

CellLocation(r, c) == [row |-> r, col |-> c]

None == [some |-> FALSE]

Some(v) == [some |-> TRUE, value |-> v]

\* the solved grid of the crate's own test (row-major, rows 1..9 of the text)
SolutionRows ==
    << <<3,9,1,8,6,7,5,4,2>>,
       <<2,8,6,5,3,4,7,1,9>>,
       <<4,5,7,2,9,1,3,8,6>>,
       <<1,2,9,6,4,5,8,7,3>>,
       <<6,3,8,1,7,9,2,5,4>>,
       <<7,4,5,3,2,8,6,9,1>>,
       <<9,7,2,4,8,6,1,3,5>>,
       <<5,6,4,7,1,3,9,2,8>>,
       <<8,1,3,9,5,2,4,6,7>> >>

SolutionGrid == [i \in Idx |-> [j \in Idx |-> Filled(SolutionRows[i + 1][j + 1])]]

(***************************************************************************)
(* SudokuTable: validity (src/sudoku.rs).                                  *)
(***************************************************************************)
\* the scan of are_distinct_digits from position k on, with its presence table
RECURSIVE distinct_scan(_, _, _)
distinct_scan(digits, k, digit_exists) ==
    IF k > Len(digits) THEN TRUE
    ELSE LET digit == digits[k] - 1
         IN  IF digit_exists[digit] THEN FALSE
             ELSE distinct_scan(digits, k + 1, [digit_exists EXCEPT ![digit] = TRUE])

are_distinct_digits(digits) ==
    distinct_scan(digits, 1, [d \in Idx |-> FALSE])

\* the digits of the Filled cells among `cells`, pushed in that order
filled_digits(contents, cells) ==
    SelectSeq([k \in 1..Len(cells) |-> contents[cells[k].row][cells[k].col]],
              LAMBDA x : x # Empty)

are_rows_valid(contents) ==
    \A i \in Idx :
        are_distinct_digits(
            filled_digits(contents, [j \in 1..TABLE_SIZE |-> CellLocation(i, j - 1)]))

are_cols_valid(contents) ==
    \A j \in Idx :
        are_distinct_digits(
            filled_digits(contents, [i \in 1..TABLE_SIZE |-> CellLocation(i - 1, j)]))

\* get_3_by_3_cell taking the first two columns of the box only
get_3_by_3_cell_two_cols(contents, row, col) ==
    filled_digits(contents,
        [k \in 1..6 |-> CellLocation((3 * row) + ((k - 1) \div 2), (3 * col) + ((k - 1) % 2))])

get_3_by_3_cell(contents, row, col) ==
    filled_digits(contents,
        [k \in 1..9 |-> CellLocation((3 * row) + ((k - 1) \div 3), (3 * col) + ((k - 1) % 3))])

are_3_by_3_cells_valid(contents) ==
    \A i \in 0..2 : \A j \in 0..2 : are_distinct_digits(get_3_by_3_cell(contents, i, j))

\* is_valid_sudoku looking at columns and boxes only
is_valid_sudoku_ignoring_rows(contents) ==
    are_cols_valid(contents) /\ are_3_by_3_cells_valid(contents)

is_valid_sudoku(contents) ==
    are_rows_valid(contents) /\ are_cols_valid(contents) /\ are_3_by_3_cells_valid(contents)

(***************************************************************************)
(* SudokuSolver (src/sudoku/solver.rs).                                    *)
(***************************************************************************)
RecursionState(cell, values) == [attempted_cell |-> cell, possible_values |-> values]

\* the scan with every row started at column y
scanned_cells_from_col_y(table, x, y) ==
    { c \in Idx \X (0..TABLE_SIZE) :
        /\ c[1] \in x..(TABLE_SIZE - 1)
        /\ c[2] \in y..(TABLE_SIZE - 1) }

\* the cells the two nested loops visit, as (i, j) pairs
scanned_cells(table, x, y) ==
    { c \in Idx \X (0..TABLE_SIZE) :
        /\ c[1] \in x..(TABLE_SIZE - 1)
        /\ c[2] \in (IF c[1] > x THEN 0 ELSE y)..(TABLE_SIZE - 1) }

\* next_empty_cell_starting_from returning the last Empty cell of the scan
next_empty_cell_starting_from_last(table, loc) ==
    LET found == { c \in scanned_cells(table, loc.row, loc.col) : table[c[1]][c[2]] = Empty }
    IN  IF found = {} THEN None
        ELSE LET last == CHOOSE c \in found :
                             \A d \in found : c[1] > d[1] \/ (c[1] = d[1] /\ c[2] >= d[2])
             IN  Some(CellLocation(last[1], last[2]))

next_empty_cell_starting_from(table, loc) ==
    LET found == { c \in scanned_cells(table, loc.row, loc.col) : table[c[1]][c[2]] = Empty }
    IN  IF found = {} THEN None
        ELSE LET first == CHOOSE c \in found :
                              \A d \in found : c[1] < d[1] \/ (c[1] = d[1] /\ c[2] <= d[2])
             IN  Some(CellLocation(first[1], first[2]))

mark_existing_row_values_in_array(table, row_index, mark_array) ==
    [v \in Idx |-> mark_array[v] \/ \E j \in Idx : table[row_index][j] = Filled(v + 1)]

mark_existing_col_values_in_array(table, col_index, mark_array) ==
    [v \in Idx |-> mark_array[v] \/ \E i \in Idx : table[i][col_index] = Filled(v + 1)]

index_of_3_by_3_cell(cell) == CellLocation(cell.row \div 3, cell.col \div 3)

cells_inside_3_by_3_cell(the_3_by_3_cell) ==
    LET top_left_cell == CellLocation(the_3_by_3_cell.row * 3, the_3_by_3_cell.col * 3)
    IN  << CellLocation(top_left_cell.row, top_left_cell.col),
           CellLocation(top_left_cell.row, top_left_cell.col + 1),
           CellLocation(top_left_cell.row, top_left_cell.col + 2),
           CellLocation(top_left_cell.row + 1, top_left_cell.col),
           CellLocation(top_left_cell.row + 1, top_left_cell.col + 1),
           CellLocation(top_left_cell.row + 1, top_left_cell.col + 2),
           CellLocation(top_left_cell.row + 2, top_left_cell.col),
           CellLocation(top_left_cell.row + 2, top_left_cell.col + 1),
           CellLocation(top_left_cell.row + 2, top_left_cell.col + 2) >>

mark_existing_values_spanning_3_by_3_cell_in_array(table, cell, mark_array) ==
    LET inside == cells_inside_3_by_3_cell(index_of_3_by_3_cell(cell))
    IN  [v \in Idx |->
            mark_array[v]
            \/ \E k \in 1..Len(inside) : table[inside[k].row][inside[k].col] = Filled(v + 1)]

\* possible_values giving the indexes 0..8 of the unmarked entries as digits
possible_values_from_zero(table, cell) ==
    LET a0 == [v \in Idx |-> FALSE]
        a1 == mark_existing_row_values_in_array(table, cell.row, a0)
        a2 == mark_existing_col_values_in_array(table, cell.col, a1)
        existing_digits == mark_existing_values_spanning_3_by_3_cell_in_array(table, cell, a2)
    IN  SelectSeq([d \in 1..9 |-> d - 1], LAMBDA d : ~existing_digits[d])

\* possible_values without the row's digits
possible_values_skipping_row(table, cell) ==
    LET a0 == [v \in Idx |-> FALSE]
        a1 == mark_existing_col_values_in_array(table, cell.col, a0)
        existing_digits == mark_existing_values_spanning_3_by_3_cell_in_array(table, cell, a1)
    IN  SelectSeq([d \in 1..9 |-> d], LAMBDA d : ~existing_digits[d - 1])

\* possible_values without the column's digits
possible_values_skipping_col(table, cell) ==
    LET a0 == [v \in Idx |-> FALSE]
        a1 == mark_existing_row_values_in_array(table, cell.row, a0)
        existing_digits == mark_existing_values_spanning_3_by_3_cell_in_array(table, cell, a1)
    IN  SelectSeq([d \in 1..9 |-> d], LAMBDA d : ~existing_digits[d - 1])

possible_values(table, cell) ==
    LET a0 == [v \in Idx |-> FALSE]
        a1 == mark_existing_row_values_in_array(table, cell.row, a0)
        a2 == mark_existing_col_values_in_array(table, cell.col, a1)
        existing_digits == mark_existing_values_spanning_3_by_3_cell_in_array(table, cell, a2)
    IN  SelectSeq([d \in 1..9 |-> d], LAMBDA d : ~existing_digits[d - 1])

\* try_next_possible_value taking the digit from the pool without writing it
try_next_possible_value_not_writing(table, last_state) ==
    IF last_state.possible_values # <<>>
    THEN [ok |-> TRUE,
          table |-> table,
          last_state |-> [last_state EXCEPT
              !.possible_values = SubSeq(@, 1, Len(@) - 1)]]
    ELSE [ok |-> FALSE, table |-> table, last_state |-> last_state]

\* try_next_possible_value consuming the pool from its front
try_next_possible_value_from_front(table, last_state) ==
    IF last_state.possible_values # <<>>
    THEN LET next_value == last_state.possible_values[1]
             x == last_state.attempted_cell.row
             y == last_state.attempted_cell.col
         IN  [ok |-> TRUE,
              table |-> [table EXCEPT ![x][y] = Filled(next_value)],
              last_state |-> [last_state EXCEPT
                  !.possible_values = SubSeq(@, 2, Len(@))]]
    ELSE [ok |-> FALSE, table |-> table, last_state |-> last_state]

\* try_next_possible_value placing the pool's first digit and popping its last
try_next_possible_value_placing_first(table, last_state) ==
    IF last_state.possible_values # <<>>
    THEN LET next_value == last_state.possible_values[1]
             x == last_state.attempted_cell.row
             y == last_state.attempted_cell.col
         IN  [ok |-> TRUE,
              table |-> [table EXCEPT ![x][y] = Filled(next_value)],
              last_state |-> [last_state EXCEPT
                  !.possible_values = SubSeq(@, 1, Len(@) - 1)]]
    ELSE [ok |-> FALSE, table |-> table, last_state |-> last_state]

\* Ok(()) with the digit placed and popped from the pool, or Err(())
try_next_possible_value(table, last_state) ==
    IF last_state.possible_values # <<>>
    THEN LET next_value == last_state.possible_values[Len(last_state.possible_values)]
             x == last_state.attempted_cell.row
             y == last_state.attempted_cell.col
         IN  [ok |-> TRUE,
              table |-> [table EXCEPT ![x][y] = Filled(next_value)],
              last_state |-> [last_state EXCEPT
                  !.possible_values = SubSeq(@, 1, Len(@) - 1)]]
    ELSE [ok |-> FALSE, table |-> table, last_state |-> last_state]

\* presolve_next_empty_cell scanning from the start of the next row
presolve_next_empty_cell_from_next_row(table, last_state) ==
    LET x == last_state.attempted_cell.row
        empty_cell == next_empty_cell_starting_from(table, CellLocation(x + 1, 0))
    IN  IF ~empty_cell.some THEN None
        ELSE Some(RecursionState(empty_cell.value, possible_values(table, empty_cell.value)))

\* Ok(RecursionState) as Some(..), Err(()) as None
presolve_next_empty_cell(table, last_state) ==
    LET x == last_state.attempted_cell.row
        y == last_state.attempted_cell.col
        empty_cell == next_empty_cell_starting_from(table, CellLocation(x, y + 1))
    IN  IF ~empty_cell.some THEN None
        ELSE Some(RecursionState(empty_cell.value, possible_values(table, empty_cell.value)))

\* clear_last_try popping the frame and leaving its digit in the grid
clear_last_try_leaving_digit(recursion_stack, table) ==
    [recursion_stack |-> SubSeq(recursion_stack, 1, Len(recursion_stack) - 1),
     table |-> table]

\* clear_last_try with the row and the column of the cleared cell exchanged
clear_last_try_transposed(recursion_stack, table) ==
    LET popped == recursion_stack[Len(recursion_stack)]
        x == popped.attempted_cell.row
        y == popped.attempted_cell.col
    IN  [recursion_stack |-> SubSeq(recursion_stack, 1, Len(recursion_stack) - 1),
         table |-> [table EXCEPT ![y][x] = Empty]]

\* clear_last_try emptying the cell and leaving the frame on the stack
clear_last_try_keeping_frame(recursion_stack, table) ==
    LET popped == recursion_stack[Len(recursion_stack)]
        x == popped.attempted_cell.row
        y == popped.attempted_cell.col
    IN  [recursion_stack |-> recursion_stack,
         table |-> [table EXCEPT ![x][y] = Empty]]

clear_last_try(recursion_stack, table) ==
    LET popped == recursion_stack[Len(recursion_stack)]
        x == popped.attempted_cell.row
        y == popped.attempted_cell.col
    IN  [recursion_stack |-> SubSeq(recursion_stack, 1, Len(recursion_stack) - 1),
         table |-> [table EXCEPT ![x][y] = Empty]]

\* SudokuSolver::new, with the caller's side of the iterator: pc is "idle"
\* between calls of next() and "running" inside one; iterations counts the
\* iterations the loop of the current (or the last) call of next() has made;
\* returned lists what the calls made so far returned
new(table) ==
    LET cell == next_empty_cell_starting_from(table, CellLocation(0, 0))
    IN  [table |-> table,
         recursion_stack |->
            IF cell.some
            THEN <<RecursionState(cell.value, possible_values(table, cell.value))>>
            ELSE <<>>,
         pc |-> "idle",
         iterations |-> 0,
         returned |-> <<>>]

NoneCount(returned) == Cardinality({k \in 1..Len(returned) : ~returned[k].some})

\* call_next building the stack anew from the first cell, as new() does
call_next_rescanning(s, t) ==
    /\ s.pc = "idle"
    /\ NoneCount(s.returned) <= MaxCallsAfterNone
    /\ t = [new(s.table) EXCEPT !.pc = "running", !.returned = s.returned]

\* the caller asks for the next solution
call_next(s, t) ==
    /\ s.pc = "idle"
    /\ NoneCount(s.returned) <= MaxCallsAfterNone
    /\ t = [s EXCEPT !.pc = "running", !.iterations = 0]

\* next_place_and_push taking any digit of the pool, as an unordered pool would
next_place_and_push_any_candidate(s, t) ==
    /\ s.pc = "running"
    /\ s.recursion_stack # <<>>
    /\ LET n == Len(s.recursion_stack)
           pool == s.recursion_stack[n].possible_values
           x == s.recursion_stack[n].attempted_cell.row
           y == s.recursion_stack[n].attempted_cell.col
       IN  \E p \in 1..Len(pool) :
             LET table1 == [s.table EXCEPT ![x][y] = Filled(pool[p])]
                 stack1 == [s.recursion_stack EXCEPT ![n].possible_values =
                               SubSeq(pool, 1, p - 1) \o SubSeq(pool, p + 1, Len(pool))]
                 presolved_state == presolve_next_empty_cell(table1, stack1[n])
             IN  /\ presolved_state.some
                 /\ t = [s EXCEPT !.table = table1,
                                  !.recursion_stack = Append(stack1, presolved_state.value),
                                  !.iterations = @ + 1]

\* one iteration of the loop of next(): a digit is placed and a frame pushed
next_place_and_push(s, t) ==
    /\ s.pc = "running"
    /\ s.recursion_stack # <<>>
    /\ LET n == Len(s.recursion_stack)
           tried == try_next_possible_value(s.table, s.recursion_stack[n])
           stack1 == [s.recursion_stack EXCEPT ![n] = tried.last_state]
           presolved_state == presolve_next_empty_cell(tried.table, stack1[n])
       IN  /\ tried.ok
           /\ presolved_state.some
           /\ t = [s EXCEPT !.table = tried.table,
                            !.recursion_stack = Append(stack1, presolved_state.value),
                            !.iterations = @ + 1]

\* one iteration of the loop of next(): a digit is placed, no Empty cell is
\* left, and next() returns Some(self.table.clone())
next_place_and_return(s, t) ==
    /\ s.pc = "running"
    /\ s.recursion_stack # <<>>
    /\ LET n == Len(s.recursion_stack)
           tried == try_next_possible_value(s.table, s.recursion_stack[n])
           stack1 == [s.recursion_stack EXCEPT ![n] = tried.last_state]
           presolved_state == presolve_next_empty_cell(tried.table, stack1[n])
       IN  /\ tried.ok
           /\ ~presolved_state.some
           /\ t = [s EXCEPT !.table = tried.table,
                            !.recursion_stack = stack1,
                            !.iterations = @ + 1,
                            !.pc = "idle",
                            !.returned = Append(@, Some(tried.table))]

\* one iteration of the loop of next(): the top frame has no candidate left
next_backtrack(s, t) ==
    /\ s.pc = "running"
    /\ s.recursion_stack # <<>>
    /\ LET n == Len(s.recursion_stack)
           tried == try_next_possible_value(s.table, s.recursion_stack[n])
           cleared == clear_last_try(s.recursion_stack, s.table)
       IN  /\ ~tried.ok
           /\ t = [s EXCEPT !.table = cleared.table,
                            !.recursion_stack = cleared.recursion_stack,
                            !.iterations = @ + 1]

\* next() returning None and rebuilding the stack as new() does
next_return_none_restarting(s, t) ==
    /\ s.pc = "running"
    /\ s.recursion_stack = <<>>
    /\ t = [new(s.table) EXCEPT !.returned = Append(s.returned, None)]

\* the loop of next() ends on an empty stack: next() returns None
next_return_none(s, t) ==
    /\ s.pc = "running"
    /\ s.recursion_stack = <<>>
    /\ t = [s EXCEPT !.pc = "idle", !.returned = Append(@, None)]

(***************************************************************************)
(* The solver's inputs: the reference grid with some of HoleCells blanked  *)
(* and at most one blanked cell refilled with the digit another blanked    *)
(* cell held, kept when is_valid_sudoku accepts the grid (as from_string   *)
(* does before the solver is built).                                       *)
(***************************************************************************)
HoleCells ==
    { <<0, 2>>, <<0, 5>>, <<2, 2>>, <<2, 5>>,
      <<1, 7>>, <<1, 8>>, <<5, 7>>, <<5, 8>>, <<8, 8>> }

Blanked(H) ==
    [i \in Idx |-> [j \in Idx |-> IF <<i, j>> \in H THEN Empty ELSE SolutionGrid[i][j]]]

Variants(H) ==
    {Blanked(H)} \cup
    { [Blanked(H) EXCEPT ![c[1]][c[2]] = Filled(SolutionGrid[h[1]][h[2]])] : c \in H, h \in H }

SolverInput(maxHoles) ==
    \E H \in { h \in SUBSET HoleCells : Cardinality(h) <= maxHoles } :
        input \in { g \in Variants(H) : is_valid_sudoku(g) }

NotParsed == [kind |-> "NotParsed"]

Init ==
    /\ SolverInput(MaxHoles)
    /\ solver = new(input)
    /\ twin = new(input)
    /\ lines = <<>>
    /\ parsed = NotParsed
    /\ valid = None

CallNext == call_next(solver, solver') /\ UNCHANGED <<input, twin, lines, parsed, valid>>

PlaceAndPush == next_place_and_push(solver, solver') /\ UNCHANGED <<input, twin, lines, parsed, valid>>

PlaceAndReturn == next_place_and_return(solver, solver') /\ UNCHANGED <<input, twin, lines, parsed, valid>>

Backtrack == next_backtrack(solver, solver') /\ UNCHANGED <<input, twin, lines, parsed, valid>>

ReturnNone == next_return_none(solver, solver') /\ UNCHANGED <<input, twin, lines, parsed, valid>>

Next == CallNext \/ PlaceAndPush \/ PlaceAndReturn \/ Backtrack \/ ReturnNone

Spec == Init /\ [][Next]_vars

(***************************************************************************)
(* Two solvers built from one input grid, each called and stepped on its   *)
(* own.                                                                    *)
(***************************************************************************)
InitPair ==
    /\ SolverInput(MaxPairHoles)
    /\ solver = new(input)
    /\ twin = new(input)
    /\ lines = <<>>
    /\ parsed = NotParsed
    /\ valid = None

TwinCallNext == call_next(twin, twin') /\ UNCHANGED <<input, solver, lines, parsed, valid>>

TwinPlaceAndPush == next_place_and_push(twin, twin') /\ UNCHANGED <<input, solver, lines, parsed, valid>>

TwinPlaceAndReturn == next_place_and_return(twin, twin') /\ UNCHANGED <<input, solver, lines, parsed, valid>>

TwinBacktrack == next_backtrack(twin, twin') /\ UNCHANGED <<input, solver, lines, parsed, valid>>

TwinReturnNone == next_return_none(twin, twin') /\ UNCHANGED <<input, solver, lines, parsed, valid>>

NextPair ==
    \/ CallNext \/ PlaceAndPush \/ PlaceAndReturn \/ Backtrack \/ ReturnNone
    \/ TwinCallNext \/ TwinPlaceAndPush \/ TwinPlaceAndReturn \/ TwinBacktrack \/ TwinReturnNone

PairSpec == InitPair /\ [][NextPair]_vars

(***************************************************************************)
(* SudokuTable::from_string.  A line is a sequence of chars and a char is  *)
(* its Unicode scalar value; the Err(String) results are told apart by     *)
(* their message:                                                          *)
(*   BadLineLength     "line should have exactly 9 characters"             *)
(*   IllegalCharacter  "illegal character '{}'"                            *)
(*   TooManyLines      "expected 9 lines, found more"                      *)
(*   TooFewLines       "expected 9 lines, found {}"                        *)
(*   InvalidPuzzle     "illegal table"                                     *)
(* consumed counts the lines pulled from the iterator table_str.           *)
(***************************************************************************)
CharX == 88

CharDigits == 49..57

to_digit(char) == char - 48

\* char::len_utf8: the bytes a char takes in a String
len_utf8(char) ==
    IF char < 128 THEN 1 ELSE IF char < 2048 THEN 2 ELSE IF char < 65536 THEN 3 ELSE 4

RECURSIVE bytes_upto(_, _)
bytes_upto(line, k) == IF k = 0 THEN 0 ELSE bytes_upto(line, k - 1) + len_utf8(line[k])

\* String::len: the length of a line in bytes
len(line) == bytes_upto(line, Len(line))

RowOk(row) == [ok |-> TRUE, row |-> row]

BadLineLength == [kind |-> "BadLineLength"]

IllegalCharacter(char) == [kind |-> "IllegalCharacter", char |-> char]

TooManyLines == [kind |-> "TooManyLines"]

TooFewLines(found) == [kind |-> "TooFewLines", found |-> found]

InvalidPuzzle == [kind |-> "InvalidPuzzle"]

RowErr(message) == [ok |-> FALSE, err |-> message]

RECURSIVE extract_cells(_, _, _)
extract_cells(line, k, result) ==
    IF k > Len(line) THEN RowOk(result)
    ELSE IF line[k] \in CharDigits
         THEN extract_cells(line, k + 1, Append(result, Filled(to_digit(line[k]))))
    ELSE IF line[k] = CharX
         THEN extract_cells(line, k + 1, Append(result, Empty))
    ELSE RowErr(IllegalCharacter(line[k]))

extract_row_from_line(line) ==
    IF len(line) # 9 THEN RowErr(BadLineLength)
    ELSE extract_cells(line, 1, <<>>)

\* collect ending at the 9th line, the lines after it neither read nor counted
RECURSIVE collect_ignoring_extra_lines(_, _, _)
collect_ignoring_extra_lines(table_str, k, contents) ==
    IF k > Len(table_str) \/ k > TABLE_SIZE
    THEN [ok |-> TRUE, contents |-> contents, consumed |-> k - 1]
    ELSE LET x == extract_row_from_line(table_str[k])
         IN  IF ~x.ok
             THEN [ok |-> FALSE, err |-> x.err, consumed |-> k]
             ELSE collect_ignoring_extra_lines(table_str, k + 1, Append(contents, x.row))

\* collect reading the lines to the end before it reports a 10th line
RECURSIVE collect_reading_all_lines(_, _, _)
collect_reading_all_lines(table_str, k, contents) ==
    IF k > Len(table_str)
    THEN [ok |-> TRUE, contents |-> contents, consumed |-> Len(table_str)]
    ELSE LET x == extract_row_from_line(table_str[k])
             i == k - 1
         IN  IF i >= TABLE_SIZE
             THEN [ok |-> FALSE, err |-> TooManyLines, consumed |-> Len(table_str)]
             ELSE IF ~x.ok
             THEN [ok |-> FALSE, err |-> x.err, consumed |-> k]
             ELSE collect_reading_all_lines(table_str, k + 1, Append(contents, x.row))

\* collect looking at a line's own error before its index
RECURSIVE collect_preferring_line_errors(_, _, _)
collect_preferring_line_errors(table_str, k, contents) ==
    IF k > Len(table_str)
    THEN [ok |-> TRUE, contents |-> contents, consumed |-> Len(table_str)]
    ELSE LET x == extract_row_from_line(table_str[k])
             i == k - 1
         IN  IF ~x.ok
             THEN [ok |-> FALSE, err |-> x.err, consumed |-> k]
             ELSE IF i >= TABLE_SIZE
             THEN [ok |-> FALSE, err |-> TooManyLines, consumed |-> k]
             ELSE collect_preferring_line_errors(table_str, k + 1, Append(contents, x.row))

\* map(extract_row_from_line).enumerate().map(..).collect(): lines are pulled
\* one at a time and the first Err ends the collection
RECURSIVE collect(_, _, _)
collect(table_str, k, contents) ==
    IF k > Len(table_str)
    THEN [ok |-> TRUE, contents |-> contents, consumed |-> Len(table_str)]
    ELSE LET x == extract_row_from_line(table_str[k])
             i == k - 1
         IN  IF i >= TABLE_SIZE
             THEN [ok |-> FALSE, err |-> TooManyLines, consumed |-> k]
             ELSE IF ~x.ok
             THEN [ok |-> FALSE, err |-> x.err, consumed |-> k]
             ELSE collect(table_str, k + 1, Append(contents, x.row))

\* the Vec of rows as the grid the solver works on
table_of(contents) == [i \in Idx |-> [j \in Idx |-> contents[i + 1][j + 1]]]

from_string(table_str) ==
    LET contents == collect(table_str, 1, <<>>)
    IN  IF ~contents.ok
        THEN [kind |-> contents.err.kind, err |-> contents.err, consumed |-> contents.consumed]
        ELSE IF Len(contents.contents) < TABLE_SIZE
        THEN [kind |-> "TooFewLines", err |-> TooFewLines(Len(contents.contents)),
              consumed |-> contents.consumed]
        ELSE IF ~is_valid_sudoku(table_of(contents.contents))
        THEN [kind |-> "InvalidPuzzle", err |-> InvalidPuzzle, consumed |-> contents.consumed]
        ELSE [kind |-> "Ok", table |-> table_of(contents.contents),
              consumed |-> contents.consumed]

(***************************************************************************)
(* The texts from_string is applied to: the text of a grid (the solved     *)
(* grid with cells blanked or refilled), cut or continued to a number of   *)
(* lines near 9, with at most one line mangled: a char dropped or added    *)
(* at its end, a char replaced by one outside '1'..'9' and 'X', or both.   *)
(***************************************************************************)
MaxTextHoles == 2

MaxLineDelta == 2

TextHoleCells == { <<0, 2>>, <<0, 5>>, <<2, 2>>, <<2, 5>> }

\* '0', ' ', 'x' and the two-byte 'e' with an acute accent
StrayChars == { 48, 32, 120, 233 }

MangleCols == { 1, 8 }

LengthDeltas == { -1, 0, 1 }

TextGrids ==
    UNION { Variants(H) : H \in { h \in SUBSET TextHoleCells : Cardinality(h) <= MaxTextHoles } }

char_of(cell) == IF cell = Empty THEN CharX ELSE 48 + cell

Text(g) == [i \in 1..TABLE_SIZE |-> [j \in 1..TABLE_SIZE |-> char_of(g[i - 1][j - 1])]]

Resize(text, n) == [i \in 1..n |-> text[((i - 1) % TABLE_SIZE) + 1]]

Resized(line, delta) ==
    IF delta < 0 THEN SubSeq(line, 1, Len(line) + delta)
    ELSE IF delta > 0 THEN Append(line, 49)
    ELSE line

MangledLines(line) ==
    { Resized(line, delta) : delta \in LengthDeltas \ {0} }
    \cup { [Resized(line, delta) EXCEPT ![p] = c] :
              delta \in LengthDeltas, p \in MangleCols, c \in StrayChars }

ParserInput ==
    \E g \in TextGrids, n \in (TABLE_SIZE - MaxLineDelta)..(TABLE_SIZE + MaxLineDelta) :
        LET text == Resize(Text(g), n)
        IN  lines \in {text} \cup UNION { { [text EXCEPT ![i] = l] : l \in MangledLines(text[i]) } :
                                            i \in 1..n }

\* a line one char short, and a line of 9 chars that starts with '0'
FaultyLines(line) == { Resized(line, -1), [line EXCEPT ![1] = 48] }

\* the text of the solved grid with two of its lines faulty
TwoFaultsInput ==
    \E n \in (TABLE_SIZE - MaxLineDelta)..(TABLE_SIZE + MaxLineDelta) :
        LET text == Resize(Text(SolutionGrid), n)
        IN  lines \in UNION { { [text EXCEPT ![i] = a, ![j] = b] :
                                  a \in FaultyLines(text[i]), b \in FaultyLines(text[j]) } :
                              i \in 1..n, j \in 1..n }

InitParse ==
    /\ input = SolutionGrid
    /\ solver = new(input)
    /\ twin = new(input)
    /\ (ParserInput \/ TwoFaultsInput)
    /\ parsed = NotParsed
    /\ valid = None

FromString ==
    /\ parsed = NotParsed
    /\ parsed' = from_string(lines)
    /\ UNCHANGED <<input, solver, twin, lines, valid>>

NextParse == FromString

SpecParse == InitParse /\ [][NextParse]_vars

(***************************************************************************)
(* The grids is_valid_sudoku is applied to: the solved grid with at most   *)
(* MaxEdits of the cells EditCells set to Empty or to a digit, so that a   *)
(* digit comes to repeat in a row alone, a column alone, a box alone, in   *)
(* several of them or in none.                                             *)
(***************************************************************************)
MaxEdits == 3

\* (0,2) holds 1; 7 is at (0,5) and (2,2); 2 is at (0,8), (1,0) and (6,2)
EditCells == { <<0, 2>>, <<0, 5>>, <<2, 2>>, <<0, 8>>, <<1, 0>>, <<6, 2>> }

EditValues == { Empty, Filled(1), Filled(2), Filled(7) }

Edited(E, f) ==
    [i \in Idx |-> [j \in Idx |-> IF <<i, j>> \in E THEN f[<<i, j>>] ELSE SolutionGrid[i][j]]]

InitValid ==
    /\ \E E \in { e \in SUBSET EditCells : Cardinality(e) <= MaxEdits } :
           \E f \in [E -> EditValues] : input = Edited(E, f)
    /\ solver = new(SolutionGrid)
    /\ twin = new(SolutionGrid)
    /\ lines = <<>>
    /\ parsed = NotParsed
    /\ valid = None

IsValidSudoku ==
    /\ valid = None
    /\ valid' = Some(is_valid_sudoku(input))
    /\ UNCHANGED <<input, solver, twin, lines, parsed>>

NextValid == IsValidSudoku

SpecValid == InitValid /\ [][NextValid]_vars

(***************************************************************************)
(* What the claims speak of, stated without the solver's own operators.    *)
(***************************************************************************)
AllCells == Idx \X Idx

At(g, c) == g[c[1]][c[2]]

EmptyCells(g) == { c \in AllCells : At(g, c) = Empty }

Complete(g) == EmptyCells(g) = {}

\* two different cells in one row, one column or one 3x3 box
SameUnit(a, b) ==
    /\ a # b
    /\ \/ a[1] = b[1]
       \/ a[2] = b[2]
       \/ (a[1] \div 3 = b[1] \div 3 /\ a[2] \div 3 = b[2] \div 3)

\* the cells that share a row, a column or a box with each cell
Peers == [a \in AllCells |-> { b \in AllCells : SameUnit(a, b) }]

\* no digit is repeated in any row, column or box
NoRepeat(g) ==
    \A a \in AllCells : At(g, a) # Empty => \A b \in Peers[a] : At(g, a) # At(g, b)

\* g and h hold the same digit wherever g is Filled
Agrees(g, h) == \A c \in AllCells : At(g, c) # Empty => At(h, c) = At(g, c)

\* the digits no Filled cell in a unit of c holds
Allowed(g, c) == { d \in 1..9 : \A b \in Peers[c] : At(g, b) # d }

\* every valid completion of g: the complete grids without a repeat that
\* agree with g, found by filling the Empty cells from the last one backwards
RECURSIVE Completions(_)
Completions(g) ==
    LET empty == EmptyCells(g)
    IN  IF empty = {} THEN (IF NoRepeat(g) THEN {g} ELSE {})
        ELSE LET c == CHOOSE e \in empty :
                          \A f \in empty : f[1] < e[1] \/ (f[1] = e[1] /\ f[2] <= e[2])
             IN  UNION { Completions([g EXCEPT ![c[1]][c[2]] = d]) : d \in Allowed(g, c) }

Last(seq) == seq[Len(seq)]

\* the grids the calls of next() made so far returned, in order
ReturnedGrids(s) ==
    LET some == SelectSeq(s.returned, LAMBDA r : r.some)
    IN  [k \in 1..Len(some) |-> some[k].value]

\* a call of next() has just returned a grid
JustReturnedGrid(s) ==
    s.pc = "idle" /\ s.returned # <<>> /\ Last(s.returned).some

\* a call of next() has just returned None
JustReturnedNone(s) ==
    s.pc = "idle" /\ s.returned # <<>> /\ ~Last(s.returned).some

(***************************************************************************)
(* C1: every grid next() returns for a valid input has no Empty cell and   *)
(* no digit repeated in a row, a column or a 3x3 box.  Each returned grid  *)
(* is the last entry of `returned` in the state its call ends in.          *)
(***************************************************************************)
C1_ReturnedGridsAreSolved ==
    (JustReturnedGrid(solver) /\ NoRepeat(input)) =>
        /\ Complete(Last(solver.returned).value)
        /\ NoRepeat(Last(solver.returned).value)

\* a second grid has been returned for an input with several Empty cells
C1_Witness ==
    /\ JustReturnedGrid(solver)
    /\ Len(ReturnedGrids(solver)) >= 2
    /\ Cardinality(EmptyCells(input)) >= 4
    /\ NoRepeat(input)

(***************************************************************************)
(* C2: for a valid input with an Empty cell, the calls of next() up to the *)
(* first None return every valid completion of the input exactly once:     *)
(* as many grids as there are completions, no two equal.                   *)
(***************************************************************************)
C2_AllCompletionsExactlyOnce ==
    (JustReturnedNone(solver) /\ NoneCount(solver.returned) = 1
        /\ ~Complete(input) /\ NoRepeat(input)) =>
        LET grids == ReturnedGrids(solver)
            completions == Completions(input)
        IN  /\ { grids[k] : k \in 1..Len(grids) } = completions
            /\ Len(grids) = Cardinality(completions)

\* the search of an input with several completions has ended
C2_Witness ==
    /\ JustReturnedNone(solver)
    /\ NoneCount(solver.returned) = 1
    /\ Len(ReturnedGrids(solver)) >= 4
    /\ Cardinality(Completions(input)) >= 4

(***************************************************************************)
(* C3: for a valid input without an Empty cell the first call of next()    *)
(* returns the input grid and the second call returns None.                *)
(***************************************************************************)
C3_CompleteInputReturnedOnce ==
    (Complete(input) /\ NoRepeat(input)) =>
        /\ Len(solver.returned) >= 1 => solver.returned[1] = Some(input)
        /\ Len(solver.returned) >= 2 => solver.returned[2] = None

(***************************************************************************)
(* C4: every cell that is Filled in the input holds the input's digit in   *)
(* the working grid in every state, and so in every grid returned.         *)
(***************************************************************************)
C4_GivenCellsKept ==
    /\ Agrees(input, solver.table)
    /\ JustReturnedGrid(solver) => Agrees(input, Last(solver.returned).value)

\* a grid was returned after a backtrack cleared cells, the givens in place
C4_Witness ==
    /\ JustReturnedGrid(solver)
    /\ Len(ReturnedGrids(solver)) >= 2
    /\ Cardinality(EmptyCells(input)) >= 4
    /\ EmptyCells(input) # AllCells
    /\ Agrees(input, Last(solver.returned).value)

(***************************************************************************)
(* C5: for a valid input with an Empty cell and exactly one valid          *)
(* completion, the first call of next() returns that completion and the    *)
(* second call returns None.                                               *)
(***************************************************************************)
C5_UniqueCompletion ==
    (solver.pc = "idle" /\ Len(solver.returned) \in 1..2 /\ ~Complete(input)) =>
        LET completions == Completions(input)
        IN  Cardinality(completions) = 1 =>
                /\ solver.returned[1].some
                /\ completions = { solver.returned[1].value }
                /\ Len(solver.returned) = 2 => solver.returned[2] = None

\* both calls were made on an input whose single Empty cell has one legal digit
C5_Witness ==
    /\ solver.pc = "idle"
    /\ Len(solver.returned) = 2
    /\ Cardinality(EmptyCells(input)) = 1
    /\ Cardinality(Completions(input)) = 1
    /\ solver.returned[2] = None

(***************************************************************************)
(* C6: every call of next() ends, returning a grid or None, after finitely *)
(* many iterations of its loop, and only finitely many calls return a grid *)
(* before one returns None.  Stated with a rank: the sizes of the frames'  *)
(* candidate pools from the bottom of the stack up, at most 81 numbers in  *)
(* 0..9, ordered lexicographically (a proper prefix is smaller).  Every    *)
(* iteration of the loop makes the rank strictly smaller; the end of the   *)
(* loop on an empty stack returns None; and a new call starts from the     *)
(* rank the last one left.  No chain of ranks descends forever, so each    *)
(* call ends and the calls that return a grid, each with an iteration at   *)
(* least, are finitely many.                                               *)
(***************************************************************************)
Rank(s) == [k \in 1..Len(s.recursion_stack) |-> Len(s.recursion_stack[k].possible_values)]

LexLess(a, b) ==
    \/ Len(a) < Len(b) /\ \A k \in 1..Len(a) : a[k] = b[k]
    \/ \E k \in 1..Len(a) :
          /\ k <= Len(b)
          /\ a[k] < b[k]
          /\ \A j \in 1..(k - 1) : a[j] = b[j]

\* what a step of the solver does to the rank
RankStep ==
    /\ (solver.pc = "running" /\ solver.recursion_stack # <<>>) =>
          /\ LexLess(Rank(solver'), Rank(solver))
          /\ solver'.iterations = solver.iterations + 1
    /\ (solver.pc = "running" /\ solver.recursion_stack = <<>>) =>
          JustReturnedNone(solver')
    /\ solver.pc = "idle" =>
          (solver'.pc = "running" /\ Rank(solver') = Rank(solver))

C6_EveryCallEnds == [][RankStep]_vars

\* None came after two grids, the last call having looped and backtracked
C6_Witness ==
    /\ JustReturnedNone(solver)
    /\ Len(ReturnedGrids(solver)) >= 2
    /\ solver.iterations >= 4

(***************************************************************************)
(* C7: once a call of next() has returned None, every later step leaves    *)
(* the stack empty and the working grid as it is, and every later call     *)
(* returns None.                                                           *)
(***************************************************************************)
C7_NoneIsFinal ==
    [][NoneCount(solver.returned) > 0 =>
          /\ solver.recursion_stack = <<>>
          /\ solver'.recursion_stack = <<>>
          /\ solver'.table = solver.table
          /\ \A k \in (Len(solver.returned) + 1)..Len(solver'.returned) :
                 solver'.returned[k] = None]_vars

\* two more calls returned None after the search of a solvable input ended
C7_Witness ==
    /\ solver.pc = "idle"
    /\ NoneCount(solver.returned) >= 3
    /\ Len(ReturnedGrids(solver)) >= 1
    /\ solver.recursion_stack = <<>>

LegalChars == CharDigits \cup {CharX}

WellFormed(line) == Len(line) = 9 /\ \A k \in 1..Len(line) : line[k] \in LegalChars

MalformedLines(text) == { i \in 1..Len(text) : ~WellFormed(text[i]) }

GridOfText(text) ==
    [i \in Idx |-> [j \in Idx |->
        IF text[i + 1][j + 1] = CharX THEN Empty ELSE Filled(text[i + 1][j + 1] - 48)]]

Parsed == parsed.kind # "NotParsed"

(***************************************************************************)
(* C9: for 9 lines of 9 chars of '1'..'9' and 'X', from_string returns Ok  *)
(* exactly when no row, column or box repeats a digit and the error        *)
(* 'illegal table' otherwise; cell (i, j) of the Ok grid is Empty when     *)
(* char j of line i is 'X' and Filled(d) when it is the digit d.           *)
(***************************************************************************)
C9_WellFormedTextParses ==
    (Parsed /\ Len(lines) = 9 /\ MalformedLines(lines) = {}) =>
        IF NoRepeat(GridOfText(lines))
        THEN parsed.kind = "Ok" /\ parsed.table = GridOfText(lines)
        ELSE parsed.kind = "InvalidPuzzle"

\* a text of 9 well-formed lines with an 'X' in it has been parsed to a grid
C9_Witness ==
    /\ Parsed
    /\ Len(lines) = 9
    /\ MalformedLines(lines) = {}
    /\ parsed.kind = "Ok"
    /\ EmptyCells(parsed.table) # {}

(***************************************************************************)
(* C10: for 9 lines of which exactly one is malformed, from_string returns *)
(* BadLineLength when that line does not have 9 characters, and            *)
(* IllegalCharacter naming a character of that line outside '1'..'9' and   *)
(* 'X' when it has 9 characters; never Ok or another error.                *)
(***************************************************************************)
C10_OneMalformedLine ==
    (Parsed /\ Len(lines) = 9 /\ Cardinality(MalformedLines(lines)) = 1) =>
        LET line == lines[CHOOSE i \in MalformedLines(lines) : TRUE]
        IN  IF Len(line) # 9
            THEN parsed.kind = "BadLineLength"
            ELSE /\ parsed.kind = "IllegalCharacter"
                 /\ parsed.err.char \notin LegalChars
                 /\ \E k \in 1..Len(line) : line[k] = parsed.err.char

(***************************************************************************)
(* C11: when every line is well formed, from_string returns TooFewLines,   *)
(* reporting the number of lines found, for fewer than 9 lines, and        *)
(* TooManyLines for more than 9, whether or not the first 9 lines are a    *)
(* valid puzzle.                                                           *)
(***************************************************************************)
C11_LineCountErrors ==
    (Parsed /\ MalformedLines(lines) = {} /\ Len(lines) # 9) =>
        IF Len(lines) < 9
        THEN parsed.kind = "TooFewLines" /\ parsed.err.found = Len(lines)
        ELSE parsed.kind = "TooManyLines"

\* more than 9 well-formed lines whose first 9 repeat a digit were rejected
\* for their number
C11_Witness ==
    /\ Parsed
    /\ MalformedLines(lines) = {}
    /\ Len(lines) > 9
    /\ ~NoRepeat(GridOfText(lines))
    /\ parsed.kind = "TooManyLines"

(***************************************************************************)
(* C12, as stated: of the rules an input violates, from_string reports the *)
(* first in the order BadLineLength, IllegalCharacter, TooFewLines,        *)
(* TooManyLines, InvalidPuzzle: a line of wrong length anywhere yields     *)
(* BadLineLength, otherwise an illegal character yields IllegalCharacter,  *)
(* otherwise a wrong number of lines yields TooFewLines or TooManyLines,   *)
(* and only well-formed input yields InvalidPuzzle.  It is stated here    *)
(* for texts of one-byte chars, on which the length of a line in bytes is  *)
(* its length in chars.                                                    *)
(***************************************************************************)
HasIllegalChar(line) == \E k \in 1..Len(line) : line[k] \notin LegalChars

OneByteChars(text) == \A i \in 1..Len(text) : \A k \in 1..Len(text[i]) : text[i][k] < 128

C12_PriorityOrder ==
    (Parsed /\ OneByteChars(lines)) =>
        IF \E k \in 1..Len(lines) : Len(lines[k]) # 9
        THEN parsed.kind = "BadLineLength"
        ELSE IF \E k \in 1..Len(lines) : HasIllegalChar(lines[k])
        THEN parsed.kind = "IllegalCharacter"
        ELSE IF Len(lines) < 9 THEN parsed.kind = "TooFewLines"
        ELSE IF Len(lines) > 9 THEN parsed.kind = "TooManyLines"
        ELSE parsed.kind \in {"Ok", "InvalidPuzzle"}

(***************************************************************************)
(* C12, amended: the error is that of the first offending line in reading  *)
(* order, where a line offends by being malformed or by being the 10th.    *)
(* A malformed line among the first 9 yields BadLineLength or              *)
(* IllegalCharacter (BadLineLength when all its chars are legal, and       *)
(* IllegalCharacter names its first illegal char); a 10th line yields      *)
(* TooManyLines whatever it holds; with no offending line, fewer than 9    *)
(* lines yield TooFewLines, and only 9 well-formed lines yield Ok or       *)
(* InvalidPuzzle.                                                          *)
(***************************************************************************)
OffendingLines(text) == { k \in 1..Len(text) : k > 9 \/ ~WellFormed(text[k]) }

FirstOf(S) == CHOOSE k \in S : \A m \in S : k <= m

FirstIllegalChar(line) ==
    line[FirstOf({ k \in 1..Len(line) : line[k] \notin LegalChars })]

C12_FirstOffendingLineDecides ==
    Parsed =>
        IF OffendingLines(lines) # {}
        THEN LET k == FirstOf(OffendingLines(lines))
             IN  IF k > 9 THEN parsed.kind = "TooManyLines"
                 ELSE IF ~HasIllegalChar(lines[k]) THEN parsed.kind = "BadLineLength"
                 ELSE /\ parsed.kind \in {"BadLineLength", "IllegalCharacter"}
                      /\ parsed.kind = "IllegalCharacter" =>
                             parsed.err.char = FirstIllegalChar(lines[k])
        ELSE IF Len(lines) < 9 THEN parsed.kind = "TooFewLines"
        ELSE parsed.kind \in {"Ok", "InvalidPuzzle"}

\* a line of 9 chars with an illegal one comes before a line of 8 chars, and
\* the illegal character is what was reported
C12_Witness ==
    /\ Parsed
    /\ \E i \in 1..Len(lines), j \in 1..Len(lines) :
           /\ i < j /\ j <= 9
           /\ Len(lines[i]) = 9 /\ HasIllegalChar(lines[i])
           /\ Len(lines[j]) = 8
    /\ parsed.kind = "IllegalCharacter"

(***************************************************************************)
(* C13: for a grid of cells Empty or Filled(1..9), is_valid_sudoku returns *)
(* true if and only if no row, no column and no 3x3 box holds the same     *)
(* digit in two Filled cells.                                              *)
(***************************************************************************)
RowRepeats(g) ==
    \E i \in Idx : \E j \in Idx, k \in Idx : j # k /\ g[i][j] # Empty /\ g[i][j] = g[i][k]

ColRepeats(g) ==
    \E j \in Idx : \E i \in Idx, k \in Idx : i # k /\ g[i][j] # Empty /\ g[i][j] = g[k][j]

BoxRepeats(g) ==
    \E a \in AllCells, b \in AllCells :
        /\ a # b
        /\ a[1] \div 3 = b[1] \div 3
        /\ a[2] \div 3 = b[2] \div 3
        /\ At(g, a) # Empty
        /\ At(g, a) = At(g, b)

C13_ValidIffNoRepeat ==
    valid.some =>
        (valid.value <=> ~(RowRepeats(input) \/ ColRepeats(input) \/ BoxRepeats(input)))

\* a grid whose only repeat is inside a box (two cells of the box in
\* different rows and columns) was found invalid
C13_Witness ==
    /\ valid.some
    /\ ~valid.value
    /\ BoxRepeats(input)
    /\ ~RowRepeats(input)
    /\ ~ColRepeats(input)

(***************************************************************************)
(* What the claims about the solver's frames speak of.                     *)
(***************************************************************************)
FrameCell(frame) == <<frame.attempted_cell.row, frame.attempted_cell.col>>

Cleared(g, c) == [g EXCEPT ![c[1]][c[2]] = Empty]

Depth(s) == Len(s.recursion_stack)

(***************************************************************************)
(* C14: for a valid input, in every reachable state, between calls of      *)
(* next() and between the iterations of its loop, the working grid has no  *)
(* digit repeated in a row, a column or a 3x3 box; replacing a frame's     *)
(* digit by its next candidate after a backtrack creates no conflict.      *)
(* The input never changes and has no repeat when the solver is built, so *)
(* the working grid has none when it keeps the input's digits where the    *)
(* input is Filled, and no cell that is Empty in the input holds a digit   *)
(* one of its peers holds.                                                 *)
(***************************************************************************)
C14_TableNeverRepeats ==
    /\ (solver.pc = "idle" /\ solver.returned = <<>>) => NoRepeat(input)
    /\ \A c \in AllCells :
           IF At(input, c) # Empty
           THEN At(solver.table, c) = At(input, c)
           ELSE At(solver.table, c) # Empty =>
                    \A b \in Peers[c] : At(solver.table, b) # At(solver.table, c)

\* inside next(), the frame below the top holds at least its second
\* candidate: a deeper frame was popped and the digit replaced
C14_Witness ==
    /\ solver.pc = "running"
    /\ Depth(solver) >= 2
    /\ LET frame == solver.recursion_stack[Depth(solver) - 1]
       IN  /\ At(solver.table, FrameCell(frame)) # Empty
           /\ Len(frame.possible_values) + 2 <=
                  Cardinality(Allowed(Cleared(solver.table, FrameCell(frame)), FrameCell(frame)))

(***************************************************************************)
(* C15: between the iterations of the loop of next(), for every frame      *)
(* below the top frame the working grid holds a Filled cell at the frame's *)
(* location, and its digit is the digit of no other Filled cell of its     *)
(* row, column or 3x3 box.                                                 *)
(***************************************************************************)
C15_LowerFramesAreFilled ==
    \A k \in 1..(Depth(solver) - 1) :
        LET c == FrameCell(solver.recursion_stack[k])
        IN  /\ At(solver.table, c) # Empty
            /\ \A b \in Peers[c] : At(solver.table, b) # At(solver.table, c)

\* inside next(), three frames lie below the top frame
C15_Witness ==
    /\ solver.pc = "running"
    /\ Depth(solver) >= 4
    /\ At(solver.table, FrameCell(solver.recursion_stack[Depth(solver)])) = Empty

(***************************************************************************)
(* C16: when next() returns a grid, the solver is left as the last         *)
(* placement made it: the stack is the stack of before with the placed     *)
(* digit taken from the top frame's pool, the top frame's cell holds that  *)
(* digit, and the grid returned is the working grid.  The following call   *)
(* starts from that very stack and grid, and its first iteration takes the *)
(* top frame's last remaining candidate, or pops the top frame when none   *)
(* remains.                                                                *)
(***************************************************************************)
ButLast(seq) == SubSeq(seq, 1, Len(seq) - 1)

AfterGrid(s) == s.returned # <<>> /\ Last(s.returned).some

ReturnStep ==
    (solver.pc = "running" /\ solver'.pc = "idle" /\ Last(solver'.returned).some) =>
        LET n == Depth(solver)
            top == solver.recursion_stack[n]
        IN  /\ solver'.recursion_stack =
                   [solver.recursion_stack EXCEPT ![n].possible_values = ButLast(@)]
            /\ solver'.table =
                   [solver.table EXCEPT ![top.attempted_cell.row][top.attempted_cell.col] =
                       Filled(Last(top.possible_values))]
            /\ Last(solver'.returned).value = solver'.table

ResumeStep ==
    (solver.pc = "idle" /\ solver'.pc = "running" /\ AfterGrid(solver)) =>
        /\ solver'.recursion_stack = solver.recursion_stack
        /\ solver'.table = solver.table

FirstIterationStep ==
    (solver.pc = "running" /\ solver.iterations = 0 /\ AfterGrid(solver) /\ solver' # solver) =>
        LET n == Depth(solver)
            top == solver.recursion_stack[n]
        IN  /\ n >= 1
            /\ IF top.possible_values # <<>>
               THEN /\ At(solver'.table, FrameCell(top)) = Filled(Last(top.possible_values))
                    /\ Depth(solver') >= n
                    /\ SubSeq(solver'.recursion_stack, 1, n) =
                           [solver.recursion_stack EXCEPT ![n].possible_values = ButLast(@)]
               ELSE /\ solver'.recursion_stack = ButLast(solver.recursion_stack)
                    /\ solver'.table = Cleared(solver.table, FrameCell(top))

ReturnAndResume == ReturnStep /\ ResumeStep /\ FirstIterationStep

C16_ReturnLeavesSolverAsIs == [][ReturnAndResume]_vars

\* the call after a returned grid has made its first iteration, on the stack
\* the return left: the frames below the top are frames of the returned grid
C16_Witness ==
    /\ solver.pc = "running"
    /\ solver.iterations = 1
    /\ AfterGrid(solver)
    /\ Depth(solver) >= 2
    /\ At(solver.table, FrameCell(solver.recursion_stack[Depth(solver) - 1])) # Empty
    /\ \A k \in 1..(Depth(solver) - 1) :
           At(Last(solver.returned).value, FrameCell(solver.recursion_stack[k])) # Empty

(***************************************************************************)
(* C17: when the top frame's pool is empty, one step of the loop of next() *)
(* pops that frame and sets that frame's cell to Empty; every other cell   *)
(* of the working grid and every other frame, location and pool, is left   *)
(* as it was.                                                              *)
(***************************************************************************)
TopPoolEmpty(s) ==
    /\ s.pc = "running"
    /\ Depth(s) >= 1
    /\ s.recursion_stack[Depth(s)].possible_values = <<>>

BacktrackStep ==
    (TopPoolEmpty(solver) /\ solver' # solver) =>
        LET c == FrameCell(solver.recursion_stack[Depth(solver)])
        IN  /\ Depth(solver') = Depth(solver) - 1
            /\ \A k \in 1..Depth(solver') :
                   solver'.recursion_stack[k] = solver.recursion_stack[k]
            /\ At(solver'.table, c) = Empty
            /\ \A b \in AllCells \ {c} : At(solver'.table, b) = At(solver.table, b)
            /\ solver'.pc = "running"
            /\ solver'.returned = solver.returned

C17_BacktrackUndoesOneFrame == [][BacktrackStep]_vars

\* inside next(), a frame was popped from a stack of several: the frame now on
\* top holds a digit and the cell after it is Empty again
C17_Witness ==
    /\ solver.pc = "running"
    /\ solver.iterations >= 1
    /\ Depth(solver) >= 2
    /\ At(solver.table, FrameCell(solver.recursion_stack[Depth(solver)])) # Empty
    /\ EmptyCells(solver.table) # {}

(***************************************************************************)
(* C18: for a valid input and any number of calls, no step of the solver   *)
(* fails: an iteration of the loop (the last().unwrap() of next(), the     *)
(* pop().unwrap() of clear_last_try) starts from a stack that is not       *)
(* empty; every row and column used to index the grid is in 0..8, the scan *)
(* from column y + 1 included, also when y is 8 and for the cell (8, 8);   *)
(* every digit stored or read is in 1..9.                                  *)
(***************************************************************************)
\* the (i, j) the loops of next_empty_cell_starting_from(x, y) index the grid with
ScanIndexes(x, y) ==
    { c \in (0..TABLE_SIZE) \X (0..TABLE_SIZE) :
        /\ x <= c[1] /\ c[1] < TABLE_SIZE
        /\ (IF c[1] > x THEN 0 ELSE y) <= c[2] /\ c[2] < TABLE_SIZE }

\* the cells of the 3x3 box of (x, y), as cells_inside_3_by_3_cell lists them
BoxIndexes(x, y) ==
    { <<((x \div 3) * 3) + i, ((y \div 3) * 3) + j>> : i \in 0..2, j \in 0..2 }

SafeState(s) ==
    /\ \A c \in AllCells : At(s.table, c) = Empty \/ At(s.table, c) \in 1..9
    /\ \A k \in 1..Depth(s) :
           LET frame == s.recursion_stack[k]
           IN  /\ FrameCell(frame) \in AllCells
               /\ \A p \in 1..Len(frame.possible_values) : frame.possible_values[p] \in 1..9
               /\ BoxIndexes(frame.attempted_cell.row, frame.attempted_cell.col) \subseteq AllCells
               /\ ScanIndexes(frame.attempted_cell.row, frame.attempted_cell.col + 1)
                      \subseteq AllCells

SafeStep ==
    /\ SafeState(solver)
    /\ SafeState(solver')
    /\ solver'.iterations = solver.iterations + 1 => Depth(solver) >= 1

C18_NoStepFails == [][SafeStep]_vars

\* a grid was returned with the cell (8, 8) on top of the stack (the scan for
\* the next Empty cell started at row 8, column 9) over a frame of column 8
C18_Witness ==
    /\ JustReturnedGrid(solver)
    /\ Depth(solver) >= 2
    /\ FrameCell(solver.recursion_stack[Depth(solver)]) = <<8, 8>>
    /\ solver.recursion_stack[Depth(solver) - 1].attempted_cell.col = 8

(***************************************************************************)
(* C19: a frame pushed by SudokuSolver::new or by next() is at the first   *)
(* Empty cell in row-major order, from (0, 0) at construction and from the *)
(* cell after the cell just filled otherwise, and its pool is exactly the  *)
(* set of the digits 1..9 held by no Filled cell of its row, column or 3x3 *)
(* box in the working grid at that moment.                                 *)
(***************************************************************************)
RowMajorBefore(a, b) == a[1] < b[1] \/ (a[1] = b[1] /\ a[2] < b[2])

\* frame is at the first cell of `cells`, with the pool the grid g allows there
FreshFrame(frame, g, cells) ==
    /\ FrameCell(frame) \in cells
    /\ \A c \in cells : ~RowMajorBefore(c, FrameCell(frame))
    /\ { frame.possible_values[p] : p \in 1..Len(frame.possible_values) } =
           Allowed(g, FrameCell(frame))
    /\ Len(frame.possible_values) = Cardinality(Allowed(g, FrameCell(frame)))

JustBuilt(s) == s.pc = "idle" /\ s.returned = <<>>

PushStep ==
    /\ JustBuilt(solver) =>
           IF EmptyCells(solver.table) = {}
           THEN Depth(solver) = 0
           ELSE /\ Depth(solver) = 1
                /\ FreshFrame(solver.recursion_stack[1], solver.table, EmptyCells(solver.table))
    /\ Depth(solver') = Depth(solver) + 1 =>
           LET filled == FrameCell(solver.recursion_stack[Depth(solver)])
           IN  /\ At(solver'.table, filled) # Empty
               /\ FreshFrame(solver'.recursion_stack[Depth(solver')], solver'.table,
                             { c \in EmptyCells(solver'.table) : RowMajorBefore(filled, c) })

C19_PushedFrameIsFresh == [][PushStep]_vars

\* inside next(), a frame was pushed in a later row than the frame below it,
\* with some digits allowed and some not
C19_Witness ==
    /\ solver.pc = "running"
    /\ Depth(solver) >= 2
    /\ LET top == solver.recursion_stack[Depth(solver)]
           below == solver.recursion_stack[Depth(solver) - 1]
       IN  /\ At(solver.table, FrameCell(top)) = Empty
           /\ top.attempted_cell.row > below.attempted_cell.row
           /\ Len(top.possible_values) >= 2

(***************************************************************************)
(* C20, as stated: for more than 9 lines, from_string reports TooManyLines *)
(* only after it has consumed every line of the input: no line is left     *)
(* unread when the error is returned.                                      *)
(***************************************************************************)
C20_TooManyLinesAfterAllLines ==
    (Parsed /\ Len(lines) > 9 /\ parsed.kind = "TooManyLines") =>
        parsed.consumed = Len(lines)

(***************************************************************************)
(* C20, amended: from_string reports TooManyLines on pulling the 10th line *)
(* from the input: it has then consumed exactly 10 lines, and the lines    *)
(* after the 10th are left unread.  More than 9 lines of which the first 9 *)
(* are well formed are always rejected so.                                 *)
(***************************************************************************)
C20_TooManyLinesAtTenthLine ==
    /\ (Parsed /\ parsed.kind = "TooManyLines") =>
           /\ Len(lines) > 9
           /\ parsed.consumed = 10
    /\ (Parsed /\ Len(lines) > 9 /\ \A k \in 1..9 : WellFormed(lines[k])) =>
           parsed.kind = "TooManyLines"

\* 11 lines were rejected for their number with the 11th left unread
C20_Witness ==
    /\ Parsed
    /\ Len(lines) >= 11
    /\ parsed.kind = "TooManyLines"
    /\ parsed.consumed < Len(lines)

(***************************************************************************)
(* C21: in every reachable state the frames of the stack are, from bottom  *)
(* to top, at strictly increasing cells in row-major order, all of them    *)
(* Empty in the input, so the stack is never deeper than the number of the *)
(* input's Empty cells (at most 81); every cell Empty in the input before  *)
(* the top frame's cell is Filled in the working grid, and every one after *)
(* it is Empty.                                                            *)
(***************************************************************************)
C21_StackFollowsEmptyCells ==
    LET holes == EmptyCells(input)
        n == Depth(solver)
    IN  /\ \A k \in 1..n : FrameCell(solver.recursion_stack[k]) \in holes
        /\ \A k \in 1..(n - 1) :
               RowMajorBefore(FrameCell(solver.recursion_stack[k]),
                              FrameCell(solver.recursion_stack[k + 1]))
        /\ n <= Cardinality(holes)
        /\ n <= TABLE_SIZE * TABLE_SIZE
        /\ n >= 1 =>
               LET top == FrameCell(solver.recursion_stack[n])
               IN  \A c \in holes :
                       /\ RowMajorBefore(c, top) => At(solver.table, c) # Empty
                       /\ RowMajorBefore(top, c) => At(solver.table, c) = Empty

\* inside next(), after a backtrack: the top frame is at a Filled cell with
\* cells of the input's Empty ones before it and after it
C21_Witness ==
    /\ solver.pc = "running"
    /\ Depth(solver) >= 3
    /\ LET top == FrameCell(solver.recursion_stack[Depth(solver)])
       IN  /\ At(solver.table, top) # Empty
           /\ Cardinality({ c \in EmptyCells(input) : RowMajorBefore(top, c) }) >= 2

(***************************************************************************)
(* C22: the candidates of a frame are tried in strictly descending order:  *)
(* a pool is ascending and every digit left in it is smaller than the      *)
(* digit the frame's cell holds.  So the grids returned by successive      *)
(* calls of next() are in strictly decreasing lexicographic order of their *)
(* row-major digit sequences: each is smaller than the one before it.      *)
(***************************************************************************)
\* the 81 cells of a grid in row-major order
RowMajorDigits(g) ==
    [k \in 1..(TABLE_SIZE * TABLE_SIZE) |-> g[(k - 1) \div TABLE_SIZE][(k - 1) % TABLE_SIZE]]

PoolsDescend(s) ==
    \A k \in 1..Depth(s) :
        LET pool == s.recursion_stack[k].possible_values
            held == At(s.table, FrameCell(s.recursion_stack[k]))
        IN  /\ \A p \in 1..(Len(pool) - 1) : pool[p] < pool[p + 1]
            /\ held # Empty => \A p \in 1..Len(pool) : pool[p] < held

C22_ReturnedGridsDescend ==
    /\ PoolsDescend(solver)
    /\ JustReturnedGrid(solver) =>
           LET grids == ReturnedGrids(solver)
           IN  \A k \in 1..(Len(grids) - 1) :
                   LexLess(RowMajorDigits(grids[k + 1]), RowMajorDigits(grids[k]))

\* a third grid has just been returned
C22_Witness ==
    /\ JustReturnedGrid(solver)
    /\ Len(ReturnedGrids(solver)) >= 3

====
